---- MODULE Spec2Model ----
(***************************************************************************)
(* A model of cio/src/utils.rs: the byte trimmer (SliceExt::trim), the     *)
(* remote-file reconciler (create_or_update_file_in_github_repo) with the  *)
(* checks it makes on a unified diff and on a base-64 blob, and the        *)
(* repository-list reconciler (refresh_db_github_repos).                   *)
(*                                                                         *)
(* Byte buffers are sequences of numbers 0..255.  Paths and other texts    *)
(* whose characters the code inspects are sequences of one-character       *)
(* strings.                                                                *)
(***************************************************************************)
EXTENDS Integers, Sequences, FiniteSets, TLC

(***************************************************************************)
(* Bounds of the model.                                                    *)
(***************************************************************************)
\* longest of the short byte buffers that are enumerated exhaustively
MaxLen == 2
\* longest directory listing the gateway returns
MaxListing == 2
\* number of invocations of the reconciler by one caller
MaxCalls == 2
\* longest remote repository list of the organisation
MaxRepos == 3
\* repositories on one page of the remote list in the model; the code asks
\* for pages of 100
PageLen == 2
\* longest file, in bytes, that the contents API of the model answers with;
\* the service answers a longer one with the "too_large" fault
SizeLimit == 12

(***************************************************************************)
(* Generic helpers on sequences.                                           *)
(***************************************************************************)
RECURSIVE Concat(_)
\* the concatenation of a sequence of sequences
Concat(ss) == IF ss = <<>> THEN <<>> ELSE Head(ss) \o Concat(Tail(ss))

\* all sequences over S of length at most n
SeqsUpTo(S, n) == UNION {[1..k -> S] : k \in 0..n}

\* needle occurs in hay as a contiguous run (str::contains)
Contains(hay, needle) ==
    \E i \in 0..(Len(hay) - Len(needle)) :
        \A j \in 1..Len(needle) : hay[i + j] = needle[j]

\* F applied to the value of v: the value is computed once, however many
\* times F uses it
With(v, F(_)) == CHOOSE r \in {F(x) : x \in {v}} : TRUE

Max(a, b) == IF a >= b THEN a ELSE b
Min(a, b) == IF a <= b THEN a ELSE b

(***************************************************************************)
(* SliceExt::trim for Vec<u8>.                                             *)
(***************************************************************************)
\* is_whitespace as u8::is_ascii_whitespace: line ends count as white space
is_whitespace_Ascii(c) == c \in {9, 10, 12, 13, 32}

is_whitespace(c) == c = 9 \/ c = 32

is_not_whitespace(c) == ~is_whitespace(c)

\* self.iter().position(is_not_whitespace); 0 stands for None
position(s) ==
    IF \E i \in 1..Len(s) : is_not_whitespace(s[i])
    THEN CHOOSE i \in 1..Len(s) :
            /\ is_not_whitespace(s[i])
            /\ \A j \in 1..(i - 1) : ~is_not_whitespace(s[j])
    ELSE 0

\* self.iter().rposition(is_not_whitespace); 0 stands for None
rposition(s) ==
    IF \E i \in 1..Len(s) : is_not_whitespace(s[i])
    THEN CHOOSE i \in 1..Len(s) :
            /\ is_not_whitespace(s[i])
            /\ \A j \in (i + 1)..Len(s) : ~is_not_whitespace(s[j])
    ELSE 0

\* self[first..last + 1].to_vec(), or vec![] when no byte is kept
Trim(s) ==
    IF position(s) # 0 THEN SubSeq(s, position(s), rposition(s)) ELSE <<>>

(***************************************************************************)
(* Paths.  A path is a sequence of one-character strings.                  *)
(***************************************************************************)
RECURSIVE trim_start_matches(_, _)
\* str::trim_start_matches(c): every leading occurrence of c is removed
trim_start_matches(s, c) ==
    IF s # <<>> /\ Head(s) = c THEN trim_start_matches(Tail(s), c) ELSE s

RECURSIVE trim_end_to(_, _, _)
\* remove trailing occurrences of c while the text is longer than keep
trim_end_to(s, c, keep) ==
    IF Len(s) > Max(keep, 0) /\ s[Len(s)] = c
    THEN trim_end_to(SubSeq(s, 1, Len(s) - 1), c, keep)
    ELSE s

\* Components::has_root and Components::include_cur_dir: the path starts
\* with a separator; the path starts with a "." component
has_root(s) == s # <<>> /\ Head(s) = "/"

include_cur_dir(s) ==
    /\ s # <<>>
    /\ Head(s) = "."
    /\ (Len(s) = 1 \/ s[2] = "/")

\* Components::len_before_body: the root or the leading "."
len_before_body(s) == IF has_root(s) \/ include_cur_dir(s) THEN 1 ELSE 0

\* Components::parse_next_component_back: the text after the last separator
\* of the body, and its size with that separator
LastComponent(s, start) ==
    LET seps == {i \in (start + 1)..Len(s) : s[i] = "/"}
        last == IF seps = {} THEN start
                ELSE CHOOSE i \in seps : \A j \in seps : j <= i
    IN  [comp |-> SubSeq(s, last + 1, Len(s)),
         size |-> Len(s) - last + (IF seps = {} THEN 0 ELSE 1)]

\* parse_single_component gives no component for "" and for "."
IsComponent(comp) == comp # <<>> /\ comp # <<".">>

RECURSIVE trim_right(_, _)
\* Components::trim_right: the text without the separators and "." at the
\* end of its body
trim_right(s, start) ==
    IF Len(s) > start /\ ~IsComponent(LastComponent(s, start).comp)
    THEN trim_right(SubSeq(s, 1, Len(s) - LastComponent(s, start).size), start)
    ELSE s

\* the path without its last component and what precedes it to the end of
\* the component before: Components::next_back then as_path, on a body
\* that has a component
drop_last_component(s) ==
    LET start == len_before_body(s)
        t     == trim_right(s, start)
    IN  trim_right(SubSeq(t, 1, Len(t) - LastComponent(t, start).size), start)

\* PathBuf::from(file_path) followed by pop() and to_str(): the path is cut
\* to its parent; a path whose last component is the root, and the empty
\* path, have no parent and are left as they are
Dirname(file_path) ==
    LET start == len_before_body(file_path)
    IN  IF Len(trim_right(file_path, start)) > start
        THEN drop_last_component(file_path)
        ELSE IF include_cur_dir(file_path) THEN <<>>
        ELSE file_path

(***************************************************************************)
(* Base-64 (standard alphabet, '=' padding).  Texts are sequences of       *)
(* ASCII codes.                                                            *)
(***************************************************************************)
\* the symbol of a 6-bit value
B64Symbol(v) ==
    IF v < 26 THEN 65 + v
    ELSE IF v < 52 THEN 97 + (v - 26)
    ELSE IF v < 62 THEN 48 + (v - 52)
    ELSE IF v = 62 THEN 43 ELSE 47

\* the 6-bit value of a symbol, -1 for a byte outside the alphabet
B64Value(c) ==
    IF c >= 65 /\ c <= 90 THEN c - 65
    ELSE IF c >= 97 /\ c <= 122 THEN c - 97 + 26
    ELSE IF c >= 48 /\ c <= 57 THEN c - 48 + 52
    ELSE IF c = 43 THEN 62
    ELSE IF c = 47 THEN 63 ELSE -1

RECURSIVE Base64Encode(_)
\* the encoding the remote service applies to a blob
Base64Encode(b) ==
    IF Len(b) = 0 THEN <<>>
    ELSE IF Len(b) = 1 THEN
        << B64Symbol(b[1] \div 4), B64Symbol((b[1] % 4) * 16), 61, 61 >>
    ELSE IF Len(b) = 2 THEN
        << B64Symbol(b[1] \div 4),
           B64Symbol((b[1] % 4) * 16 + (b[2] \div 16)),
           B64Symbol((b[2] % 16) * 4), 61 >>
    ELSE
        << B64Symbol(b[1] \div 4),
           B64Symbol((b[1] % 4) * 16 + (b[2] \div 16)),
           B64Symbol((b[2] % 16) * 4 + (b[3] \div 64)),
           B64Symbol(b[3] % 64) >> \o Base64Encode(SubSeq(b, 4, Len(b)))

RECURSIVE WrapLines(_, _)
\* a newline after every w symbols and at the end, as the service wraps blobs
WrapLines(t, w) ==
    IF Len(t) <= w THEN t \o <<10>>
    ELSE SubSeq(t, 1, w) \o <<10>> \o WrapLines(SubSeq(t, w + 1, Len(t)), w)

\* String::replace("\n", "")
RemoveNewlines(t) == SelectSeq(t, LAMBDA c : c # 10)

RECURSIVE DecodeSextets(_)
\* the bytes of a run of 6-bit values whose length is not 1 modulo 4
DecodeSextets(v) ==
    IF Len(v) = 0 THEN <<>>
    ELSE IF Len(v) = 2 THEN << v[1] * 4 + (v[2] \div 16) >>
    ELSE IF Len(v) = 3 THEN
        << v[1] * 4 + (v[2] \div 16), (v[2] % 16) * 16 + (v[3] \div 4) >>
    ELSE
        << v[1] * 4 + (v[2] \div 16),
           (v[2] % 16) * 16 + (v[3] \div 4),
           (v[3] % 4) * 64 + v[4] >> \o DecodeSextets(SubSeq(v, 5, Len(v)))

\* base64::decode_config(&v, base64::STANDARD): ok is FALSE for an Err.
\* The text may end with one or two '=', which must stand in the last two
\* places of a group of four symbols
Base64Decode(t) ==
    LET body == trim_end_to(trim_end_to(t, 61, Len(t) - 1), 61, Len(t) - 2)
        vals == [i \in 1..Len(body) |-> B64Value(body[i])]
        n    == Len(body)
        pads == Len(t) - n
        bad  == \/ \E i \in 1..n : vals[i] = -1
                \/ n % 4 = 1
                \/ pads > 0 /\ (n % 4 < 2 \/ (n + pads - 1) % 4 < 2)
                \/ n % 4 = 2 /\ vals[n] % 16 # 0
                \/ n % 4 = 3 /\ vals[n] % 4 # 0
    IN  IF bad THEN [ok |-> FALSE, bytes |-> <<>>]
        ELSE [ok |-> TRUE, bytes |-> DecodeSextets(vals)]

(***************************************************************************)
(* Literal texts of the code, as ASCII codes.                              *)
(***************************************************************************)
\* "-/ModDate"
MINUS_MODDATE == << 45, 47, 77, 111, 100, 68, 97, 116, 101 >>
\* "-/CreationDate"
MINUS_CREATIONDATE == << 45, 47, 67, 114, 101, 97, 116, 105, 111, 110, 68, 97, 116, 101 >>
\* "+/ModDate"
PLUS_MODDATE == << 43, 47, 77, 111, 100, 68, 97, 116, 101 >>
\* "@@ -5,8 +5,8 @@"
HUNK_5_8 == << 64, 64, 32, 45, 53, 44, 56, 32, 43, 53, 44, 56, 32, 64, 64 >>
\* "--- original\n+++ modified\n", the header of the patch
PATCH_HEADER == 
    << 45, 45, 45, 32, 111, 114, 105, 103, 105, 110, 97, 108, 10, 43, 43, 43, 32, 109, 111, 100, 105, 102, 105, 101, 100, 10 >>
\* "\ No newline at end of file"
NO_NEWLINE_NOTE == 
    << 92, 32, 78, 111, 32, 110, 101, 119, 108, 105, 110, 101, 32, 97, 116, 32, 101, 110, 100, 32, 111, 102, 32, 102, 105, 108, 101 >>
\* "/ModDate "
MODDATE == << 47, 77, 111, 100, 68, 97, 116, 101, 32 >>
\* "/CreationDate "
CREATIONDATE == << 47, 67, 114, 101, 97, 116, 105, 111, 110, 68, 97, 116, 101, 32 >>

(***************************************************************************)
(* The unified diff of two byte buffers (diffy::create_patch_bytes and     *)
(* Patch::to_bytes): a line-oriented diff with three lines of context.     *)
(* The edit script is the one of diffy: Myers' search for the middle snake *)
(* in linear space, then the compaction that shifts each change up and     *)
(* then down as far as it goes.  When the two texts have several shortest  *)
(* edit scripts (repeated lines), this order of search decides which one   *)
(* is found; another diff program may print another of them.               *)
(***************************************************************************)
\* number of unchanged lines shown around a change
ContextLen == 3

RECURSIVE Lines(_)
\* the lines of a buffer, each with its terminating newline when it has one
Lines(b) ==
    IF b = <<>> THEN <<>>
    ELSE IF \E i \in 1..Len(b) : b[i] = 10
    THEN LET i == CHOOSE k \in 1..Len(b) :
                    b[k] = 10 /\ \A j \in 1..(k - 1) : b[j] # 10
         IN  <<SubSeq(b, 1, i)>> \o Lines(SubSeq(b, i + 1, Len(b)))
    ELSE <<b>>

\* Range::common_prefix_len: the number of leading lines two ranges share
common_prefix_len(a, b) ==
    CHOOSE n \in 0..Min(Len(a), Len(b)) :
        /\ \A i \in 1..n : a[i] = b[i]
        /\ (n = Min(Len(a), Len(b)) \/ a[n + 1] # b[n + 1])

\* Range::common_suffix_len: the number of trailing lines two ranges share
common_suffix_len(a, b) ==
    CHOOSE n \in 0..Min(Len(a), Len(b)) :
        /\ \A i \in 1..n : a[Len(a) - i + 1] = b[Len(b) - i + 1]
        /\ (n = Min(Len(a), Len(b)) \/ a[Len(a) - n] # b[Len(b) - n])

\* the bound on the depth of the search for the middle snake
max_d(n, m) == (n + m + 1) \div 2 + 1

\* the furthest x on diagonal k that a path of d edits reaches before its
\* snake: a step down from diagonal k + 1 or a step right from k - 1
NextX(v, d, k) ==
    IF k = -d \/ (k # d /\ v[k - 1] < v[k + 1]) THEN v[k + 1] ELSE v[k - 1] + 1

Abs(i) == IF i < 0 THEN -i ELSE i

\* the forward path of d edits on diagonal k: found when it meets a
\* backward path, with the start of its snake; v is the forward vector with
\* the x this path reaches
ForwardStep(old, new, d, k, vf, vb) ==
    LET n     == Len(old)
        m     == Len(new)
        delta == n - m
        x0    == NextX(vf, d, k)
        y0    == x0 - k
        x     == IF x0 < n /\ y0 >= 0 /\ y0 < m
                 THEN x0 + common_prefix_len(SubSeq(old, x0 + 1, n),
                                             SubSeq(new, y0 + 1, m))
                 ELSE x0
    IN  [found |-> /\ delta % 2 = 1
                   /\ Abs(k - delta) <= d - 1
                   /\ x + vb[-(k - delta)] >= n,
         x |-> x0, y |-> y0, v |-> [vf EXCEPT ![k] = x]]

RECURSIVE ForwardPath(_, _, _, _, _, _)
\* the forward paths of d edits on the diagonals k, k - 2, ..., -d
ForwardPath(old, new, d, k, vf, vb) ==
    IF k < -d THEN [found |-> FALSE, x |-> 0, y |-> 0, v |-> vf]
    ELSE With(ForwardStep(old, new, d, k, vf, vb),
              LAMBDA s : IF s.found THEN s
                         ELSE ForwardPath(old, new, d, k - 2, s.v, vb))

\* the backward path of d edits on diagonal k: found when it meets a
\* forward path, with the end of its snake; v is the backward vector with
\* the x this path reaches
BackwardStep(old, new, d, k, vf, vb) ==
    LET n     == Len(old)
        m     == Len(new)
        delta == n - m
        x0    == NextX(vb, d, k)
        y0    == x0 - k
        adv   == IF x0 < n /\ y0 >= 0 /\ y0 < m
                 THEN common_suffix_len(SubSeq(old, 1, n - x0),
                                        SubSeq(new, 1, m - y0))
                 ELSE 0
    IN  [found |-> /\ delta % 2 = 0
                   /\ Abs(k - delta) <= d
                   /\ x0 + adv + vf[-(k - delta)] >= n,
         x |-> n - (x0 + adv), y |-> m - (y0 + adv),
         v |-> [vb EXCEPT ![k] = x0 + adv]]

RECURSIVE BackwardPath(_, _, _, _, _, _)
\* the backward paths of d edits on the diagonals k, k - 2, ..., -d
BackwardPath(old, new, d, k, vf, vb) ==
    IF k < -d THEN [found |-> FALSE, x |-> 0, y |-> 0, v |-> vb]
    ELSE With(BackwardStep(old, new, d, k, vf, vb),
              LAMBDA s : IF s.found THEN s
                         ELSE BackwardPath(old, new, d, k - 2, vf, s.v))

RECURSIVE MiddleSnakeFrom(_, _, _, _, _)
\* the search at depth d and deeper: the forward paths, then the backward
\* paths
MiddleSnakeFrom(old, new, d, vf, vb) ==
    With(ForwardPath(old, new, d, d, vf, vb), LAMBDA f :
        IF f.found THEN <<f.x, f.y>>
        ELSE With(BackwardPath(old, new, d, d, f.v, vb), LAMBDA b :
                IF b.found THEN <<b.x, b.y>>
                ELSE MiddleSnakeFrom(old, new, d + 1, f.v, b.v)))

\* myers::find_middle_snake: where to split two ranges that share no
\* prefix and no suffix and are not empty
find_middle_snake(old, new) ==
    With([k \in (0 - max_d(Len(old), Len(new)) - 1)
                    ..(max_d(Len(old), Len(new)) + 1) |-> 0],
         LAMBDA v : MiddleSnakeFrom(old, new, 0, v, v))

\* a range of the solution: kept lines, removed lines or added lines
DiffRange(op, lines) == [op |-> op, lines |-> lines]

\* two ranges without the prefix and the suffix they share
Strip(old, new) ==
    LET p    == common_prefix_len(old, new)
        old1 == SubSeq(old, p + 1, Len(old))
        new1 == SubSeq(new, p + 1, Len(new))
        q    == common_suffix_len(old1, new1)
    IN  [prefix |-> SubSeq(old, 1, p),
         old    |-> SubSeq(old1, 1, Len(old1) - q),
         new    |-> SubSeq(new1, 1, Len(new1) - q),
         suffix |-> SubSeq(old1, Len(old1) - q + 1, Len(old1))]

RECURSIVE conquer(_, _)
\* myers::conquer: the common prefix, the two halves around the middle
\* snake, the common suffix
conquer(old, new) ==
    With(Strip(old, new), LAMBDA s :
        (IF s.prefix # <<>> THEN <<DiffRange("=", s.prefix)>> ELSE <<>>)
        \o (IF s.old = <<>> /\ s.new = <<>> THEN <<>>
            ELSE IF s.old = <<>> THEN <<DiffRange("+", s.new)>>
            ELSE IF s.new = <<>> THEN <<DiffRange("-", s.old)>>
            ELSE With(find_middle_snake(s.old, s.new), LAMBDA mid :
                    conquer(SubSeq(s.old, 1, mid[1]), SubSeq(s.new, 1, mid[2]))
                        \o conquer(SubSeq(s.old, mid[1] + 1, Len(s.old)),
                                   SubSeq(s.new, mid[2] + 1, Len(s.new)))))
        \o (IF s.suffix # <<>> THEN <<DiffRange("=", s.suffix)>> ELSE <<>>))

\* Vec::remove and Vec::insert, with positions from 1
RemoveAt(d, i) == SubSeq(d, 1, i - 1) \o SubSeq(d, i + 1, Len(d))

InsertAt(d, i, r) == SubSeq(d, 1, i - 1) \o <<r>> \o SubSeq(d, i, Len(d))

\* one turn of the loop of cleanup::shift_diff_up: the change at p goes up
\* over the kept lines it ends with, changes places with a change of the
\* other kind or is merged into a change of its kind; the solution, the new
\* position, and whether the loop goes on
ShiftUpStep(d, p) ==
    IF p < 2 THEN [d |-> d, p |-> p, more |-> FALSE]
    ELSE LET this == d[p]
             prev == d[p - 1]
         IN  IF prev.op = "="
             THEN LET n     == common_suffix_len(this.lines, prev.lines)
                      moved == SubSeq(prev.lines, Len(prev.lines) - n + 1,
                                      Len(prev.lines))
                      d1    == IF p + 1 <= Len(d) /\ d[p + 1].op = "="
                               THEN [d EXCEPT ![p + 1].lines = moved \o @]
                               ELSE InsertAt(d, p + 1, DiffRange("=", moved))
                      d2    == [d1 EXCEPT
                                 ![p].lines = moved
                                    \o SubSeq(this.lines, 1, Len(this.lines) - n),
                                 ![p - 1].lines =
                                    SubSeq(prev.lines, 1, Len(prev.lines) - n)]
                  IN  IF n = 0 THEN [d |-> d, p |-> p, more |-> FALSE]
                      ELSE IF n = Len(prev.lines)
                      THEN [d |-> RemoveAt(d2, p - 1), p |-> p - 1, more |-> TRUE]
                      ELSE [d |-> d2, p |-> p, more |-> TRUE]
             ELSE IF prev.op # this.op
             THEN [d |-> [d EXCEPT ![p - 1] = this, ![p] = prev], p |-> p - 1,
                   more |-> TRUE]
             ELSE [d |-> RemoveAt([d EXCEPT ![p - 1].lines = @ \o this.lines], p),
                   p |-> p - 1, more |-> TRUE]

RECURSIVE shift_diff_up(_, _)
\* cleanup::shift_diff_up: the solution and the position of the change when
\* it can go up no further
shift_diff_up(d, p) ==
    With(ShiftUpStep(d, p), LAMBDA s :
        IF s.more THEN shift_diff_up(s.d, s.p) ELSE [d |-> s.d, p |-> s.p])

\* one turn of the loop of cleanup::shift_diff_down: the change at p goes
\* down over the kept lines it starts with, changes places with a change of
\* the other kind or takes in a change of its kind
ShiftDownStep(d, p) ==
    IF p + 1 > Len(d) THEN [d |-> d, p |-> p, more |-> FALSE]
    ELSE LET this == d[p]
             next == d[p + 1]
         IN  IF next.op = "="
             THEN LET n     == common_prefix_len(this.lines, next.lines)
                      moved == SubSeq(next.lines, 1, n)
                      grow  == p > 1 /\ d[p - 1].op = "="
                      d1    == IF grow
                               THEN [d EXCEPT ![p - 1].lines = @ \o moved]
                               ELSE InsertAt(d, p, DiffRange("=", moved))
                      q     == IF grow THEN p ELSE p + 1
                      d2    == [d1 EXCEPT
                                 ![q].lines = SubSeq(this.lines, n + 1,
                                                     Len(this.lines)) \o moved,
                                 ![q + 1].lines =
                                    SubSeq(next.lines, n + 1, Len(next.lines))]
                  IN  IF n = 0 THEN [d |-> d, p |-> p, more |-> FALSE]
                      ELSE IF n = Len(next.lines)
                      THEN [d |-> RemoveAt(d2, q + 1), p |-> q, more |-> TRUE]
                      ELSE [d |-> d2, p |-> q, more |-> TRUE]
             ELSE IF next.op # this.op
             THEN [d |-> [d EXCEPT ![p + 1] = this, ![p] = next], p |-> p + 1,
                   more |-> TRUE]
             ELSE [d |-> RemoveAt([d EXCEPT ![p].lines = @ \o next.lines], p + 1),
                   p |-> p, more |-> TRUE]

RECURSIVE shift_diff_down(_, _)
\* cleanup::shift_diff_down: the solution and the position of the change
\* when it can go down no further
shift_diff_down(d, p) ==
    With(ShiftDownStep(d, p), LAMBDA s :
        IF s.more THEN shift_diff_down(s.d, s.p) ELSE [d |-> s.d, p |-> s.p])

RECURSIVE compact_from(_, _, _)
\* one pass of cleanup::compact over the changes of one kind, from p on
compact_from(d, p, op) ==
    IF p > Len(d) THEN d
    ELSE IF d[p].op = op
    THEN With(shift_diff_up(d, p), LAMBDA up :
            With(shift_diff_down(up.d, up.p), LAMBDA down :
                compact_from(down.d, down.p + 1, op)))
    ELSE compact_from(d, p + 1, op)

\* cleanup::compact: the removals are shifted and merged, then the additions
compact(d) ==
    With(compact_from(d, 1, "-"), LAMBDA e : compact_from(e, 1, "+"))

\* the edit script of a solution, line by line: "=" keeps a line, "-"
\* removes a line of the old text, "+" adds a line of the new text
EditScript(old, new) ==
    With(conquer(old, new), LAMBDA s :
        With(compact(s), LAMBDA d :
            Concat([i \in 1..Len(d) |->
                      [j \in 1..Len(d[i].lines) |->
                          [op |-> d[i].op, line |-> d[i].lines[j]]]])))

\* number of positions in from..to whose op is in ops
CountOps(es, from, to, ops) ==
    Cardinality({j \in from..to : es[j].op \in ops})

\* the first positions of the changes (maximal runs of "-" and "+") of a script
ChangeStarts(es) ==
    {i \in 1..Len(es) : es[i].op # "=" /\ (i = 1 \/ es[i - 1].op = "=")}

\* the last position of the change that starts at position i
ChangeEnd(es, i) ==
    CHOOSE k \in i..Len(es) :
        /\ \A j \in i..k : es[j].op # "="
        /\ (k = Len(es) \/ es[k + 1].op = "=")

\* the number of unchanged lines right before position i, at most ContextLen
PreContext(es, i) ==
    CHOOSE c \in 0..ContextLen :
        /\ c < i
        /\ \A j \in (i - c)..(i - 1) : es[j].op = "="
        /\ (c = ContextLen \/ c = i - 1 \/ es[i - c - 1].op # "=")

\* the number of unchanged lines right after position k, at most ContextLen
PostContext(es, k) ==
    CHOOSE c \in 0..ContextLen :
        /\ k + c <= Len(es)
        /\ \A j \in (k + 1)..(k + c) : es[j].op = "="
        /\ (c = ContextLen \/ k + c = Len(es) \/ es[k + c + 1].op # "=")

\* the change that starts at i2 is put in the hunk of the change before it,
\* which starts at i: its context would start before that hunk ends
MergesWith(es, i, i2) ==
    LET n1     == CountOps(es, 1, Len(es), {"=", "-"})
        end1   == CountOps(es, 1, ChangeEnd(es, i), {"=", "-"})
                    + PostContext(es, ChangeEnd(es, i))
        start2 == CountOps(es, 1, i2 - 1, {"=", "-"})
        start1_next == Max(Min(start2, n1 - 1) - ContextLen, 0)
    IN  start1_next < end1

\* the start of the change that follows the change starting at i, 0 if none
NextChange(es, i) ==
    IF \E j \in ChangeStarts(es) : j > i
    THEN CHOOSE j \in ChangeStarts(es) :
            j > i /\ \A h \in ChangeStarts(es) : h > i => h >= j
    ELSE 0

RECURSIVE LastChangeOfHunk(_, _)
\* the start of the last change in the hunk whose first change starts at i
LastChangeOfHunk(es, i) ==
    IF NextChange(es, i) # 0 /\ MergesWith(es, i, NextChange(es, i))
    THEN LastChangeOfHunk(es, NextChange(es, i))
    ELSE i

RECURSIVE Decimal(_)
\* the decimal digits of a natural number, as ASCII codes
Decimal(n) ==
    IF n < 10 THEN <<48 + n>> ELSE Decimal(n \div 10) \o <<48 + (n % 10)>>

\* a range of a hunk header: "start" when len is 1, else "start,len"; the
\* start of an empty range is the line before it
HunkRange(start, len) ==
    Decimal(IF len > 0 THEN start ELSE start - 1)
        \o (IF len # 1 THEN <<44>> \o Decimal(len) ELSE <<>>)

\* one line of a hunk: its marker, the line, and the note when the line has
\* no newline
HunkLine(e) ==
    (IF e.op = "=" THEN <<32>> ELSE IF e.op = "-" THEN <<45>> ELSE <<43>>)
        \o e.line
        \o (IF e.line[Len(e.line)] = 10 THEN <<>>
            ELSE <<10>> \o NO_NEWLINE_NOTE \o <<10>>)

\* the text of the hunk whose first change starts at position i and whose
\* last change starts at position l
HunkText(es, i, l) ==
    LET from == i - PreContext(es, i)
        to   == ChangeEnd(es, l) + PostContext(es, ChangeEnd(es, l))
        old1 == CountOps(es, 1, from - 1, {"=", "-"}) + 1
        new1 == CountOps(es, 1, from - 1, {"=", "+"}) + 1
        oldn == CountOps(es, from, to, {"=", "-"})
        newn == CountOps(es, from, to, {"=", "+"})
    IN  <<64, 64, 32, 45>> \o HunkRange(old1, oldn)
            \o <<32, 43>> \o HunkRange(new1, newn) \o <<32, 64, 64, 10>>
            \o Concat([j \in 1..(to - from + 1) |-> HunkLine(es[from + j - 1])])

RECURSIVE HunksFrom(_, _)
\* the text of the hunks whose changes start at or after position i, which
\* is the start of a change or 0
HunksFrom(es, i) ==
    IF i = 0 THEN <<>>
    ELSE HunkText(es, i, LastChangeOfHunk(es, i))
            \o HunksFrom(es, NextChange(es, LastChangeOfHunk(es, i)))

\* diffy::create_patch_bytes(old, new).to_bytes()
create_patch_bytes(old, new) ==
    With(<<Lines(old), Lines(new)>>, LAMBDA l :
        With(EditScript(l[1], l[2]), LAMBDA es :
            PATCH_HEADER \o HunksFrom(es, NextChange(es, 0))))

\* the number of bytes of the UTF-8 sequence a byte starts: 1 for ASCII,
\* 0 for a byte that starts none
Utf8Width(c) ==
    IF c < 128 THEN 1
    ELSE IF c >= 194 /\ c <= 223 THEN 2
    ELSE IF c >= 224 /\ c <= 239 THEN 3
    ELSE IF c >= 240 /\ c <= 244 THEN 4
    ELSE 0

Utf8Continuation(c) == c >= 128 /\ c <= 191

\* std::str::from_utf8 succeeds on the bytes: every byte that starts a
\* sequence is followed by its continuation bytes, and every continuation
\* byte belongs to the sequence started by the nearest byte before it that
\* is none
ValidUtf8(b) ==
    LET n == Len(b)
        owner(j) == CHOOSE i \in 1..j :
                        /\ ~Utf8Continuation(b[i])
                        /\ \A k \in (i + 1)..j : Utf8Continuation(b[k])
    IN  \A i \in 1..n :
            IF Utf8Continuation(b[i])
            THEN /\ \E k \in 1..(i - 1) : ~Utf8Continuation(b[k])
                 /\ i - owner(i) < Utf8Width(b[owner(i)])
            ELSE /\ Utf8Width(b[i]) > 0
                 /\ i + Utf8Width(b[i]) - 1 <= n
                 /\ \A k \in (i + 1)..(i + Utf8Width(b[i]) - 1) :
                        Utf8Continuation(b[k])
                 /\ (b[i] = 224 => b[i + 1] >= 160)
                 /\ (b[i] = 237 => b[i + 1] <= 159)
                 /\ (b[i] = 240 => b[i + 1] >= 144)
                 /\ (b[i] = 244 => b[i + 1] <= 143)

\* from_utf8(&bdiff).unwrap_or("")
from_utf8_or_empty(b) == IF ValidUtf8(b) THEN b ELSE <<>>

\* the test the reconciler makes on the diff of the remote content (decoded)
\* and the wanted content: only the dates of a PDF changed
SpuriousDiff(decoded, content) ==
    LET str_diff == from_utf8_or_empty(create_patch_bytes(decoded, content))
    IN  /\ Contains(str_diff, MINUS_MODDATE)
        /\ Contains(str_diff, MINUS_CREATIONDATE)
        /\ Contains(str_diff, PLUS_MODDATE)
        /\ Contains(str_diff, MINUS_CREATIONDATE)
        /\ Contains(str_diff, HUNK_5_8)

(***************************************************************************)
(* Inputs of the model.                                                    *)
(***************************************************************************)
\* the bytes of the short buffers: space and 'h'
ShortBytes == {32, 104}

\* a PDF-like buffer of twelve lines: the dates are on lines 8 and 9, the
\* first line is `first`
PdfBuffer(first, mod, creation) ==
    first \o <<10, 10, 10, 10, 10, 10>>
        \o MODDATE \o <<mod, 10>> \o CREATIONDATE \o <<creation, 10>>
        \o <<10, 10, 10>>

\* a PDF-like buffer of twenty lines: the twelve lines of PdfBuffer, seven
\* empty lines and a last line `last`
PdfTail(mod, creation, last) ==
    PdfBuffer(<<10>>, mod, creation) \o <<10, 10, 10, 10, 10, 10, 10>> \o <<last, 10>>

\* buffers with tabs, newlines and control bytes, and PDF-like buffers that
\* differ in their dates, in the white space around them or in a far line
LongBuffers ==
    { <<9, 104, 9>>, <<9, 32>>, <<104, 10>>, <<32, 104, 32, 10>>, <<10, 104, 10>>,
      <<9, 13, 104, 12, 32>>,
      PdfBuffer(<<10>>, 49, 49), PdfBuffer(<<10>>, 50, 50),
      PdfBuffer(<<10>>, 50, 49), <<32>> \o PdfBuffer(<<10>>, 49, 49),
      PdfTail(49, 49, 104), PdfTail(50, 50, 105) }

\* the byte buffers the caller passes and the remote file holds
Buffers == SeqsUpTo(ShortBytes, MaxLen) \cup LongBuffers

\* the (file_path, branch) pairs the caller passes
Targets ==
    { <<<<"/", "a">>, "main">>, <<<<"a">>, "dev">>, <<<<"/", "/", "a">>, "main">>,
      <<<<"/", "d", "/", "a">>, "dev">> }

\* "too_large"
TOO_LARGE == << 116, 111, 111, 95, 108, 97, 114, 103, 101 >>

\* the errors get_file can fail with: hubcaps::errors::Error::RateLimit,
\* ::Fault with its message, and the other variants
GetErrors ==
    { [kind |-> "RateLimit", reset |-> 0, message |-> <<>>],
      [kind |-> "RateLimit", reset |-> 7, message |-> <<>>],
      [kind |-> "Fault", reset |-> 0, message |-> << 98, 108, 111, 98, 32, 105, 115, 32, 116, 111, 111, 95, 108, 97, 114, 103, 101, 32, 102, 111, 114, 32, 116, 104, 105, 115, 32, 65, 80, 73 >>],
      [kind |-> "Fault", reset |-> 0, message |-> << 78, 111, 116, 32, 70, 111, 117, 110, 100 >>],
      [kind |-> "Fault", reset |-> 0, message |-> << 116, 111, 111, 32, 108, 97, 114, 103, 101 >>],
      [kind |-> "Other", reset |-> 0, message |-> <<>>] }

\* the reconciler calls of the model: 1 is the caller of Spec
Procs == {1, 2}

(***************************************************************************)
(* The remote repository as the reconciler sees it through hubcaps.        *)
(***************************************************************************)
\* the content hash of a blob; the empty tuple is no hash
Sha(bytes) == <<bytes>>

NoSha == <<>>

\* the path under which the service lists the file the caller names
ListedPath(file_path) == trim_start_matches(file_path, "/")

\* another file of the same directory
Sibling(file_path) == Dirname(ListedPath(file_path))
    \o (IF Dirname(ListedPath(file_path)) = <<>> THEN <<>> ELSE <<"/">>) \o <<"b">>

\* the directory items the service can list for the directory of file_path
\* when the remote file is file: the file itself, when it exists, and a sibling
DirectoryItems(file, file_path) ==
    { [path |-> Sibling(file_path), sha |-> Sha(<<104, 104>>)] }
        \cup (IF file.exists
              THEN {[path |-> ListedPath(file_path), sha |-> Sha(file.bytes)]}
              ELSE {})

\* the blob contents the service can return for a hash: the base-64 of the
\* bytes, wrapped at 60 or at 4 symbols, or a text that is not base-64
BlobContents(sha) ==
    { WrapLines(Base64Encode(sha[1]), 60), WrapLines(Base64Encode(sha[1]), 4),
      <<33>> \o Base64Encode(sha[1]) }

(***************************************************************************)
(* State.                                                                  *)
(***************************************************************************)
VARIABLES
    flaky,         \* the gateway may fail transiently
    remote,        \* the file at the caller's path and branch: exists, bytes,
                   \* and rev, the number of writes applied to it
    pc,            \* pc[p]: where reconciler call p stands
    args,          \* args[p]: file_path, branch, new_content
    content,       \* content[p]: new_content.trim()
    listing,       \* listing[p]: the directory items the gateway listed
    item,          \* item[p]: the directory item with the path of the file
    items,         \* items[p]: the directory items after item[p]
    trace,         \* trace[p]: the gateway calls, prints and sleeps of the call
    before,        \* before[p]: the remote file when the call started
    ncalls,        \* ncalls[p]: calls started by the caller so far
    org,           \* the repositories of the organisation on the remote
    db,            \* the mirror: the set of GithubRepo rows
    db_before,     \* the mirror when refresh_db_github_repos started
    pages,         \* the pages of the remote list collected so far
    github_repos,  \* the rest of the repository list refresh goes through
    repo_map,      \* the rows whose names were not yet seen in the list
    dbpc,          \* where refresh_db_github_repos stands
    dbtrace        \* the calls refresh made on the database

rvars == <<flaky, remote, pc, args, content, listing, item, items, trace, before, ncalls>>

dbvars == <<org, db, db_before, pages, github_repos, repo_map, dbpc, dbtrace>>

vars == <<flaky, remote, pc, args, content, listing, item, items, trace, before, ncalls,
          org, db, db_before, pages, github_repos, repo_map, dbpc, dbtrace>>

(***************************************************************************)
(* Events of a reconciler call.                                            *)
(***************************************************************************)
\* a read call on the gateway: get_file, list_directory or fetch_blob
ReadEvent(ev, path, branch, sha) ==
    [ev |-> ev, path |-> path, branch |-> branch, bytes |-> <<>>, sha |-> sha,
     verb |-> "", ok |-> TRUE, msg |-> "", secs |-> 0, rev |-> 0]

\* a write call on the gateway, with the verb of its commit message and
\* whether the gateway accepted it
WriteEvent(ev, path, bytes, verb, sha, branch, ok) ==
    [ev |-> ev, path |-> path, branch |-> branch, bytes |-> bytes, sha |-> sha,
     verb |-> verb, ok |-> ok, msg |-> "", secs |-> 0, rev |-> 0]

\* a line printed on standard output
PrintEvent(msg, path, secs) ==
    [ev |-> "print", path |-> path, branch |-> "", bytes |-> <<>>, sha |-> NoSha,
     verb |-> "", ok |-> TRUE, msg |-> msg, secs |-> secs, rev |-> 0]

\* thread::sleep
SleepEvent(secs) ==
    [ev |-> "sleep", path |-> <<>>, branch |-> "", bytes |-> <<>>, sha |-> NoSha,
     verb |-> "", ok |-> TRUE, msg |-> "", secs |-> secs, rev |-> 0]

\* the events of a trace that are calls of op
CallsOf(tr, op) == SelectSeq(tr, LAMBDA e : e.ev = op)

\* the write calls of a trace
Writes(tr) == SelectSeq(tr, LAMBDA e : e.ev \in {"update_file", "create_file"})

(***************************************************************************)
(* create_or_update_file_in_github_repo: the decisions.                    *)
(***************************************************************************)
\* OkArm with the sizes compared in place of the contents
OkArm_SizeOnly(wanted, decoded) ==
    IF Len(wanted) = Len(decoded) THEN "same"
    ELSE IF SpuriousDiff(decoded, wanted) THEN "spurious"
    ELSE "update"

\* OkArm without the test on the dates of a PDF
OkArm_NoSpuriousTest(wanted, decoded) ==
    IF wanted = decoded THEN "same" ELSE "update"

\* OkArm without the early return on equal contents
OkArm_NoEarlyReturn(wanted, decoded) ==
    IF SpuriousDiff(decoded, wanted) THEN "spurious" ELSE "update"

\* the Ok arm: what to do with the file that was read
OkArm(wanted, decoded) ==
    IF wanted = decoded THEN "same"
    ELSE IF SpuriousDiff(decoded, wanted) THEN "spurious"
    ELSE "update"

\* the Err arm: the match on the error of get_file
ErrArm(e) ==
    IF e.kind = "RateLimit" THEN "rate_limit"
    ELSE IF e.kind = "Fault"
    THEN IF Contains(e.message, TOO_LARGE) THEN "too_large" ELSE "fault"
    ELSE "other"

\* what the Err arm prints and sleeps before it goes on
ErrArmEvents(e, file_path) ==
    IF ErrArm(e) = "rate_limit"
    THEN << PrintEvent("rate_limited", <<>>, e.reset), SleepEvent(e.reset + 5) >>
    ELSE IF ErrArm(e) = "other"
    THEN << PrintEvent("get_failed", file_path, 0) >>
    ELSE << >>

\* ErrArmNext that returns where the code falls through to the creation
ErrArmNext_NoCreate(e) == IF ErrArm(e) = "too_large" THEN "list" ELSE "done"

\* ErrArmNext with every structured fault taken for the size fault
ErrArmNext_AnyFault(e) == IF e.kind = "Fault" THEN "list" ELSE "create"

\* where the Err arm goes on: the size fallback returns, every other arm
\* falls through to the creation of the file
ErrArmNext(e) == IF ErrArm(e) = "too_large" THEN "list" ELSE "create"

\* ItemMatches with one leading '/' removed from the path of the caller
ItemMatches_StripOne(file_path, it) ==
    (IF file_path # <<>> /\ Head(file_path) = "/" THEN Tail(file_path) ELSE file_path)
        = it.path

\* the test of the fallback loop on a directory item
ItemMatches(file_path, it) == trim_start_matches(file_path, "/") = it.path

\* the position of the first item the loop does not skip, 0 if it skips all
FirstMatch(file_path, its) ==
    IF \E i \in 1..Len(its) : ItemMatches(file_path, its[i])
    THEN CHOOSE i \in 1..Len(its) :
            /\ ItemMatches(file_path, its[i])
            /\ \A j \in 1..(i - 1) : ~ItemMatches(file_path, its[j])
    ELSE 0

\* BlobArm without the early return on equal contents
BlobArm_NoEarlyReturn(wanted, text) ==
    IF ~Base64Decode(RemoveNewlines(text)).ok THEN "panic" ELSE "update"

\* BlobArm with the decoded bytes compared as they are
BlobArm_NoTrim(wanted, text) ==
    LET d == Base64Decode(RemoveNewlines(text))
    IN  IF ~d.ok THEN "panic"
        ELSE IF wanted = d.bytes THEN "same"
        ELSE "update"

\* what the fallback does with the content of the blob: newlines are
\* removed and the text is decoded, unwrap() panics on a text that is not
\* base-64, and the trimmed bytes are compared with the wanted content
BlobArm(wanted, text) ==
    LET d == Base64Decode(RemoveNewlines(text))
    IN  IF ~d.ok THEN "panic"
        ELSE IF wanted = Trim(d.bytes) THEN "same"
        ELSE "update"

\* UpdateCall with the content as the caller passed it
UpdateCall_Untrimmed(a, wanted, sha, ok) ==
    WriteEvent("update_file", a.file_path, a.new_content, "Updating", sha,
               a.branch, ok)

\* UpdateCall with the hash of the wanted content in place of the hash read
UpdateCall_OwnSha(a, wanted, sha, ok) ==
    WriteEvent("update_file", a.file_path, wanted, "Updating", Sha(wanted),
               a.branch, ok)

\* the update call of the Ok arm
UpdateCall(a, wanted, sha, ok) ==
    WriteEvent("update_file", a.file_path, wanted, "Updating", sha, a.branch, ok)

\* UpdateItemCall with the hash of the wanted content
UpdateItemCall_OwnSha(a, wanted, it, ok) ==
    WriteEvent("update_file", a.file_path, wanted, "Updating", Sha(wanted),
               a.branch, ok)

\* the update call of the size fallback
UpdateItemCall(a, wanted, it, ok) ==
    WriteEvent("update_file", a.file_path, wanted, "Updating", it.sha, a.branch, ok)

\* the create call
CreateCall(a, wanted, ok) ==
    WriteEvent("create_file", a.file_path, wanted, "Creating", NoSha, a.branch, ok)

\* AfterItemUpdate without the break: the loop goes on to the next item
\* that names the file
AfterItemUpdate_NoBreak(file_path, rest) ==
    IF FirstMatch(file_path, rest) # 0 THEN "blob" ELSE "done"

\* where the fallback loop goes after its update: it breaks and returns
AfterItemUpdate(file_path, rest) == "done"

(***************************************************************************)
(* The gateway's answers to write calls.                                   *)
(***************************************************************************)
\* update_file can be accepted: the hash is the hash of the remote file
UpdateAcceptable(file, sha) == file.exists /\ sha = Sha(file.bytes)

\* a gateway that does not fail transiently accepts the write calls it can
\* accept; a flaky one may reject them too
WriteAnswer(transient, acceptable, ok) ==
    IF transient THEN ok => acceptable ELSE ok = acceptable

\* the file is too long for the contents API
Large(bytes) == Len(bytes) > SizeLimit

\* the error of get_file without a transient failure: the size fault for a
\* long file, a fault with another message for a missing file
SteadyGetError(file, e) ==
    IF file.exists THEN Large(file.bytes) /\ ErrArm(e) = "too_large"
    ELSE ErrArm(e) = "fault"

\* the listing without a transient failure names the file when it exists
SteadyListing(file, file_path, its) ==
    file.exists =>
        \E i \in 1..Len(its) :
            its[i] = [path |-> ListedPath(file_path), sha |-> Sha(file.bytes)]

\* the blob content without a transient failure is base-64
SteadyBlob(text) == Base64Decode(RemoveNewlines(text)).ok

\* create_file can be accepted: there is no remote file
CreateAcceptable(file) == ~file.exists

NoItem == [path |-> <<>>, sha |-> NoSha]

(***************************************************************************)
(* create_or_update_file_in_github_repo: the steps.  A step is the code    *)
(* from one answer of the gateway to the next call on it.                  *)
(***************************************************************************)
Append2(tr, evs) == tr \o evs

\* the caller invokes the reconciler: content = new_content.trim(), then the
\* call of get_file is sent
Call(p) ==
    /\ pc[p] \in {"idle", "done"}
    /\ ncalls[p] < MaxCalls
    /\ ncalls' = [ncalls EXCEPT ![p] = @ + 1]
    /\ content' = [content EXCEPT ![p] = Trim(args[p].new_content)]
    /\ trace' = [trace EXCEPT ![p] = <<>>]
    /\ before' = [before EXCEPT ![p] = remote]
    /\ listing' = [listing EXCEPT ![p] = <<>>]
    /\ item' = [item EXCEPT ![p] = NoItem]
    /\ items' = [items EXCEPT ![p] = <<>>]
    /\ pc' = [pc EXCEPT ![p] = "get_file"]
    /\ UNCHANGED <<flaky, remote, args>>
    /\ UNCHANGED dbvars

\* get_file answers Ok(file): the Ok arm up to its return or its update call
GetFileOk(p) ==
    /\ pc[p] = "get_file"
    /\ remote.exists
    /\ flaky \/ ~Large(remote.bytes)
    /\ LET read    == [ReadEvent("get_file", args[p].file_path, args[p].branch,
                                 Sha(remote.bytes)) EXCEPT !.rev = remote.rev]
           decoded == Trim(remote.bytes)
           arm     == OkArm(content[p], decoded)
       IN  IF arm = "update"
           THEN /\ trace' = [trace EXCEPT ![p] = Append(@, read)]
                /\ item' = [item EXCEPT ![p] =
                              [path |-> <<>>, sha |-> Sha(remote.bytes)]]
                /\ pc' = [pc EXCEPT ![p] = "update"]
           ELSE /\ trace' = [trace EXCEPT ![p] = Append2(@,
                        <<read, PrintEvent("same", args[p].file_path, 0)>>)]
                /\ item' = item
                /\ pc' = [pc EXCEPT ![p] = "done"]
    /\ UNCHANGED <<flaky, remote, args, content, listing, items, before, ncalls>>
    /\ UNCHANGED dbvars

\* get_file answers Err(e): the Err arm up to its next call on the gateway
GetFileErr(p) ==
    /\ pc[p] = "get_file"
    /\ \E e \in GetErrors :
        /\ flaky \/ SteadyGetError(remote, e)
        /\ trace' = [trace EXCEPT ![p] = Append2(@,
                <<[ReadEvent("get_file", args[p].file_path, args[p].branch, NoSha)
                        EXCEPT !.ok = FALSE, !.msg = e.kind,
                               !.bytes = e.message, !.secs = e.reset]>>
                    \o ErrArmEvents(e, args[p].file_path))]
        /\ pc' = [pc EXCEPT ![p] = ErrArmNext(e)]
    /\ UNCHANGED <<flaky, remote, args, content, listing, item, items, before, ncalls>>
    /\ UNCHANGED dbvars

\* the update call of the Ok arm is answered; its failure is ignored, the
\* line "Updated" is printed and the function returns
UpdateFile(p) ==
    /\ pc[p] = "update"
    /\ \E ok \in BOOLEAN :
        LET call == [UpdateCall(args[p], content[p], item[p].sha, ok)
                        EXCEPT !.rev = remote.rev]
        IN  /\ WriteAnswer(flaky, UpdateAcceptable(remote, call.sha), ok)
            /\ remote' = IF ok THEN [exists |-> TRUE, bytes |-> call.bytes,
                                      rev |-> remote.rev + 1]
                                ELSE remote
            /\ trace' = [trace EXCEPT ![p] = Append2(@,
                    << call, PrintEvent("updated", args[p].file_path, 0) >>)]
    /\ pc' = [pc EXCEPT ![p] = "done"]
    /\ UNCHANGED <<flaky, args, content, listing, item, items, before, ncalls>>
    /\ UNCHANGED dbvars

\* the create call is answered; its failure is ignored, the line "Created"
\* is printed and the function returns
CreateFile(p) ==
    /\ pc[p] = "create"
    /\ \E ok \in BOOLEAN :
        LET call == [CreateCall(args[p], content[p], ok)
                        EXCEPT !.rev = remote.rev]
        IN  /\ WriteAnswer(flaky, CreateAcceptable(remote), ok)
            /\ remote' = IF ok THEN [exists |-> TRUE, bytes |-> call.bytes,
                                      rev |-> remote.rev + 1]
                                ELSE remote
            /\ trace' = [trace EXCEPT ![p] = Append2(@,
                    << call, PrintEvent("created", args[p].file_path, 0) >>)]
    /\ pc' = [pc EXCEPT ![p] = "done"]
    /\ UNCHANGED <<flaky, args, content, listing, item, items, before, ncalls>>
    /\ UNCHANGED dbvars

\* the listing of the directory is answered with its items: the loop skips
\* the items with another path; with none left the function returns
ListDirectoryOk(p) ==
    /\ pc[p] = "list"
    /\ \E its \in SeqsUpTo(DirectoryItems(remote, args[p].file_path), MaxListing) :
        LET k == FirstMatch(args[p].file_path, its)
        IN  /\ flaky \/ SteadyListing(remote, args[p].file_path, its)
            /\ trace' = [trace EXCEPT ![p] = Append(@,
                    [ReadEvent("list_directory", Dirname(args[p].file_path),
                               args[p].branch, NoSha) EXCEPT !.rev = remote.rev])]
            /\ listing' = [listing EXCEPT ![p] = its]
            /\ IF k = 0
               THEN /\ pc' = [pc EXCEPT ![p] = "done"]
                    /\ UNCHANGED <<item, items>>
               ELSE /\ pc' = [pc EXCEPT ![p] = "blob"]
                    /\ item' = [item EXCEPT ![p] = its[k]]
                    /\ items' = [items EXCEPT ![p] = SubSeq(its, k + 1, Len(its))]
    /\ UNCHANGED <<flaky, remote, args, content, before, ncalls>>
    /\ UNCHANGED dbvars

\* the listing of the directory fails: unwrap() panics
ListDirectoryErr(p) ==
    /\ pc[p] = "list"
    /\ flaky
    /\ trace' = [trace EXCEPT ![p] = Append(@,
            [ReadEvent("list_directory", Dirname(args[p].file_path),
                       args[p].branch, NoSha) EXCEPT !.ok = FALSE])]
    /\ pc' = [pc EXCEPT ![p] = "panicked"]
    /\ UNCHANGED <<flaky, remote, args, content, listing, item, items, before, ncalls>>
    /\ UNCHANGED dbvars

\* the blob of the item is answered: a text that is not base-64 panics,
\* equal trimmed contents return, other contents go on to the update call
FetchBlobOk(p) ==
    /\ pc[p] = "blob"
    /\ \E text \in BlobContents(item[p].sha) :
        LET arm  == BlobArm(content[p], text)
            read == ReadEvent("fetch_blob", <<>>, "", item[p].sha)
        IN  /\ flaky \/ SteadyBlob(text)
            /\ IF arm = "panic"
               THEN /\ trace' = [trace EXCEPT ![p] = Append(@, read)]
                    /\ pc' = [pc EXCEPT ![p] = "panicked"]
               ELSE IF arm = "same"
               THEN /\ trace' = [trace EXCEPT ![p] = Append2(@,
                           <<read, PrintEvent("same", args[p].file_path, 0)>>)]
                    /\ pc' = [pc EXCEPT ![p] = "done"]
               ELSE /\ trace' = [trace EXCEPT ![p] = Append(@, read)]
                    /\ pc' = [pc EXCEPT ![p] = "update_item"]
    /\ UNCHANGED <<flaky, remote, args, content, listing, item, items, before, ncalls>>
    /\ UNCHANGED dbvars

\* the fetch of the blob fails: unwrap() panics
FetchBlobErr(p) ==
    /\ pc[p] = "blob"
    /\ flaky
    /\ trace' = [trace EXCEPT ![p] = Append(@,
            [ReadEvent("fetch_blob", <<>>, "", item[p].sha) EXCEPT !.ok = FALSE])]
    /\ pc' = [pc EXCEPT ![p] = "panicked"]
    /\ UNCHANGED <<flaky, remote, args, content, listing, item, items, before, ncalls>>
    /\ UNCHANGED dbvars

\* the update call of the size fallback is answered; its failure is ignored,
\* the line "Updated" is printed, the loop is left and the function returns
UpdateItem(p) ==
    /\ pc[p] = "update_item"
    /\ \E ok \in BOOLEAN :
        LET call == [UpdateItemCall(args[p], content[p], item[p], ok)
                        EXCEPT !.rev = remote.rev]
        IN  /\ WriteAnswer(flaky, UpdateAcceptable(remote, call.sha), ok)
            /\ remote' = IF ok THEN [exists |-> TRUE, bytes |-> call.bytes,
                                      rev |-> remote.rev + 1]
                                ELSE remote
            /\ trace' = [trace EXCEPT ![p] = Append2(@,
                    << call, PrintEvent("updated", args[p].file_path, 0) >>)]
    /\ pc' = [pc EXCEPT ![p] = AfterItemUpdate(args[p].file_path, items[p])]
    /\ IF AfterItemUpdate(args[p].file_path, items[p]) = "blob"
       THEN LET k == FirstMatch(args[p].file_path, items[p])
            IN  /\ item' = [item EXCEPT ![p] = items[p][k]]
                /\ items' = [items EXCEPT ![p] = SubSeq(@, k + 1, Len(@))]
       ELSE UNCHANGED <<item, items>>
    /\ UNCHANGED <<flaky, args, content, listing, before, ncalls>>
    /\ UNCHANGED dbvars

(***************************************************************************)
(* Specification of the reconciler with one caller.                        *)
(***************************************************************************)
\* the remote files the model starts with: none, or one with any content
RemoteFiles ==
    {[exists |-> FALSE, bytes |-> <<>>, rev |-> 0]}
        \cup {[exists |-> TRUE, bytes |-> b, rev |-> 0] : b \in Buffers}

\* the database routine has not started and has nothing to do
DbOff ==
    /\ org = <<>>
    /\ db = {}
    /\ db_before = {}
    /\ pages = 0
    /\ github_repos = <<>>
    /\ repo_map = << >>
    /\ dbpc = "off"
    /\ dbtrace = <<>>

Init ==
    /\ flaky = TRUE
    /\ remote \in RemoteFiles
    /\ \E t \in Targets, b \in Buffers :
        args = [p \in Procs |->
                  [file_path |-> t[1], branch |-> t[2], new_content |-> b]]
    /\ pc = [p \in Procs |-> IF p = 1 THEN "idle" ELSE "off"]
    /\ content = [p \in Procs |-> <<>>]
    /\ listing = [p \in Procs |-> <<>>]
    /\ item = [p \in Procs |-> NoItem]
    /\ items = [p \in Procs |-> <<>>]
    /\ trace = [p \in Procs |-> <<>>]
    /\ before = [p \in Procs |-> remote]
    /\ ncalls = [p \in Procs |-> 0]
    /\ DbOff

Next ==
    \E p \in Procs :
        \/ Call(p)
        \/ GetFileOk(p)
        \/ GetFileErr(p)
        \/ UpdateFile(p)
        \/ CreateFile(p)
        \/ ListDirectoryOk(p)
        \/ ListDirectoryErr(p)
        \/ FetchBlobOk(p)
        \/ FetchBlobErr(p)
        \/ UpdateItem(p)

Spec == Init /\ [][Next]_vars

(***************************************************************************)
(* Specification of two callers that reconcile the same existing file to   *)
(* different contents.                                                     *)
(***************************************************************************)
\* the buffers of this specification
RaceBuffers == { <<104>>, <<32, 104, 104>>, <<104, 10>> }

InitRace ==
    /\ flaky \in BOOLEAN
    /\ remote \in {[exists |-> TRUE, bytes |-> b, rev |-> 0] : b \in RaceBuffers}
    /\ \E t \in {<<<<"/", "a">>, "main">>} :
        \E b1, b2 \in RaceBuffers :
            /\ b1 # b2
            /\ args = [p \in Procs |->
                        [file_path |-> t[1], branch |-> t[2],
                         new_content |-> IF p = 1 THEN b1 ELSE b2]]
    /\ pc = [p \in Procs |-> "idle"]
    /\ content = [p \in Procs |-> <<>>]
    /\ listing = [p \in Procs |-> <<>>]
    /\ item = [p \in Procs |-> NoItem]
    /\ items = [p \in Procs |-> <<>>]
    /\ trace = [p \in Procs |-> <<>>]
    /\ before = [p \in Procs |-> remote]
    /\ ncalls = [p \in Procs |-> 0]
    /\ DbOff

SpecRace == InitRace /\ [][Next]_vars

(***************************************************************************)
(* Specification of a caller that calls the reconciler again and again on  *)
(* a gateway that stops failing transiently.                               *)
(***************************************************************************)
\* the gateway stops failing transiently, between two calls of the caller;
\* ncalls counts the calls started from then on
Settle ==
    /\ flaky
    /\ \A p \in Procs : pc[p] \in {"off", "idle", "done", "panicked"}
    /\ flaky' = FALSE
    /\ ncalls' = [p \in Procs |-> 0]
    /\ UNCHANGED <<remote, pc, args, content, listing, item, items, trace, before>>
    /\ UNCHANGED dbvars

\* after a panic the caller is started again
Restart(p) ==
    /\ pc[p] = "panicked"
    /\ pc' = [pc EXCEPT ![p] = "idle"]
    /\ UNCHANGED <<flaky, remote, args, content, listing, item, items, trace,
                   before, ncalls>>
    /\ UNCHANGED dbvars

\* the buffers of this specification: short ones and PDF-like ones that
\* differ in their dates
LiveBuffers ==
    { <<9, 104, 9>>, <<104, 10>>,
      PdfBuffer(<<10>>, 49, 49), PdfBuffer(<<10>>, 50, 50) }

\* the paths of this specification
LiveTargets == { <<<<"/", "a">>, "main">>, <<<<"/", "/", "a">>, "main">> }

InitLive ==
    /\ flaky = TRUE
    /\ remote \in {[exists |-> FALSE, bytes |-> <<>>, rev |-> 0]}
                    \cup {[exists |-> TRUE, bytes |-> b, rev |-> 0] : b \in LiveBuffers}
    /\ \E t \in LiveTargets, b \in LiveBuffers :
        args = [p \in Procs |->
                  [file_path |-> t[1], branch |-> t[2], new_content |-> b]]
    /\ pc = [p \in Procs |-> IF p = 1 THEN "idle" ELSE "off"]
    /\ content = [p \in Procs |-> <<>>]
    /\ listing = [p \in Procs |-> <<>>]
    /\ item = [p \in Procs |-> NoItem]
    /\ items = [p \in Procs |-> <<>>]
    /\ trace = [p \in Procs |-> <<>>]
    /\ before = [p \in Procs |-> remote]
    /\ ncalls = [p \in Procs |-> 0]
    /\ DbOff

\* a step of caller p
LiveStep(p) ==
    \/ Call(p)
    \/ GetFileOk(p)
    \/ GetFileErr(p)
    \/ UpdateFile(p)
    \/ CreateFile(p)
    \/ ListDirectoryOk(p)
    \/ ListDirectoryErr(p)
    \/ FetchBlobOk(p)
    \/ FetchBlobErr(p)
    \/ UpdateItem(p)
    \/ Restart(p)

NextLive ==
    \/ \E p \in Procs : LiveStep(p)
    \/ Settle

\* get_file of p can be answered with the file, and the blob of p can be
\* answered with a content: ENABLED <<GetFileOk(p)>>_vars and
\* ENABLED <<FetchBlobOk(p)>>_vars
GetFileOkEnabled(p) ==
    pc[p] = "get_file" /\ remote.exists /\ (flaky \/ ~Large(remote.bytes))

FetchBlobOkEnabled(p) == pc[p] = "blob"

\* the steps of p other than the two answers above
OtherStep(p) ==
    \/ Call(p)
    \/ GetFileErr(p)
    \/ UpdateFile(p)
    \/ CreateFile(p)
    \/ ListDirectoryOk(p)
    \/ ListDirectoryErr(p)
    \/ FetchBlobErr(p)
    \/ UpdateItem(p)
    \/ Restart(p)

\* weak fairness of the steps of p: the task of the call is polled until it
\* returns, and the caller calls again.  For the two answers that compare
\* contents, WF_vars(A) is written as []<>~ENABLED <<A>>_vars \/ []<><<A>>_vars
\* with the enabling condition spelled out
FairSteps(p) ==
    /\ WF_vars(OtherStep(p))
    /\ []<>(~GetFileOkEnabled(p)) \/ []<><<GetFileOk(p)>>_vars
    /\ []<>(~FetchBlobOkEnabled(p)) \/ []<><<FetchBlobOk(p)>>_vars

\* the caller goes on calling and every call on the gateway is answered
SpecLive ==
    InitLive /\ [][NextLive]_vars /\ \A p \in Procs : FairSteps(p)

(***************************************************************************)
(* refresh_db_github_repos.                                                *)
(***************************************************************************)
\* the repository names of the model, in the order of String
RepoNames == <<"a", "b", "c", "d">>

\* the descriptive fields of a repository, all in one
RepoFields == {1, 2}

\* the remote repository descriptors (NewRepo)
NewRepos == {[name |-> RepoNames[i], fields |-> f] :
                i \in 1..Len(RepoNames), f \in RepoFields}

\* the names of a set of rows or of a list of descriptors
NamesOf(rows) == {r.name : r \in rows}

ListNames(list) == {list[i].name : i \in 1..Len(list)}

\* Database::upsert_github_repo: the row of the name is inserted or replaced
\* by the descriptor
upsert_github_repo(rows, repo) ==
    {r \in rows : r.name # repo.name} \cup {repo}

\* Database::delete_github_repo_by_name
delete_github_repo_by_name(rows, name) == {r \in rows : r.name # name}

\* the BTreeMap built from db.get_github_repos(): one row for each name
RepoMap(rows) ==
    [n \in NamesOf(rows) |-> CHOOSE r \in rows : r.name = n]

\* BTreeMap::remove
MapRemove(m, n) == [k \in (DOMAIN m) \ {n} |-> m[k]]

\* the first key of a non-empty map in the order of its keys
FirstKey(m) ==
    RepoNames[CHOOSE i \in 1..Len(RepoNames) :
                /\ RepoNames[i] \in DOMAIN m
                /\ \A j \in 1..(i - 1) : RepoNames[j] \notin DOMAIN m]

\* SyncRepo without the removal of the name from the map
SyncRepo_KeepName(rows, m, repo) ==
    [db |-> upsert_github_repo(rows, repo), repo_map |-> m]

\* the step of the first loop on a descriptor: the database after the
\* upsert and the map after the removal of the name
SyncRepo(rows, m, repo) ==
    [db |-> upsert_github_repo(rows, repo), repo_map |-> MapRemove(m, repo.name)]

\* every page of the remote list has been collected: there was at least
\* one request, and no repository is left for a further page
AllPages(list, n) == n >= 1 /\ n * PageLen >= Len(list)

\* try_collect takes the next page of the remote list
RefreshFetchPage ==
    /\ dbpc = "idle"
    /\ ~AllPages(org, pages)
    /\ pages' = pages + 1
    /\ UNCHANGED <<org, db, db_before, github_repos, repo_map, dbpc, dbtrace>>
    /\ UNCHANGED rvars

\* list_all_github_repos answers with the repositories of the organisation;
\* the rows of the mirror are read into the map
RefreshFetchOk ==
    /\ dbpc = "idle"
    /\ AllPages(org, pages)
    /\ github_repos' = org
    /\ repo_map' = RepoMap(db)
    /\ dbpc' = "sync"
    /\ UNCHANGED <<org, db, db_before, pages, dbtrace>>
    /\ UNCHANGED rvars

\* RefreshFetchErr in a routine that syncs each page as it arrives: the
\* repositories of the pages collected so far are upserted before the panic
RefreshFetchErr_PageByPage ==
    /\ dbpc = "idle"
    /\ ~AllPages(org, pages)
    /\ dbpc' = "panicked"
    /\ db' = db \cup {org[i] : i \in 1..Min(pages * PageLen, Len(org))}
    /\ dbtrace' = dbtrace \o [i \in 1..Min(pages * PageLen, Len(org)) |->
                                [op |-> "upsert", name |-> org[i].name,
                                 repo |-> <<org[i]>>]]
    /\ UNCHANGED <<org, db_before, pages, github_repos, repo_map>>
    /\ UNCHANGED rvars

\* the request for a page of the repository list fails: unwrap() panics
RefreshFetchErr ==
    /\ dbpc = "idle"
    /\ ~AllPages(org, pages)
    /\ dbpc' = "panicked"
    /\ UNCHANGED <<org, db, db_before, pages, github_repos, repo_map, dbtrace>>
    /\ UNCHANGED rvars

\* one turn of the loop over the remote repositories
RefreshUpsert ==
    /\ dbpc = "sync"
    /\ github_repos # <<>>
    /\ LET r == SyncRepo(db, repo_map, Head(github_repos))
       IN  /\ db' = r.db
           /\ repo_map' = r.repo_map
    /\ dbtrace' = Append(dbtrace, [op |-> "upsert", name |-> Head(github_repos).name,
                                   repo |-> <<Head(github_repos)>>])
    /\ github_repos' = Tail(github_repos)
    /\ UNCHANGED <<org, db_before, pages, dbpc>>
    /\ UNCHANGED rvars

\* one turn of the loop over the rows left in the map; with none left the
\* function returns
RefreshDelete ==
    /\ dbpc = "sync"
    /\ github_repos = <<>>
    /\ IF DOMAIN repo_map = {}
       THEN /\ dbpc' = "done"
            /\ UNCHANGED <<db, repo_map, dbtrace>>
       ELSE /\ db' = delete_github_repo_by_name(db, FirstKey(repo_map))
            /\ repo_map' = MapRemove(repo_map, FirstKey(repo_map))
            /\ dbtrace' = Append(dbtrace, [op |-> "delete",
                                           name |-> FirstKey(repo_map), repo |-> <<>>])
            /\ UNCHANGED dbpc
    /\ UNCHANGED <<org, db_before, pages, github_repos>>
    /\ UNCHANGED rvars

\* no reconciler call runs
ReconcilerOff ==
    /\ flaky = TRUE
    /\ remote = [exists |-> FALSE, bytes |-> <<>>, rev |-> 0]
    /\ args = [p \in Procs |-> [file_path |-> <<>>, branch |-> "", new_content |-> <<>>]]
    /\ pc = [p \in Procs |-> "off"]
    /\ content = [p \in Procs |-> <<>>]
    /\ listing = [p \in Procs |-> <<>>]
    /\ item = [p \in Procs |-> NoItem]
    /\ items = [p \in Procs |-> <<>>]
    /\ trace = [p \in Procs |-> <<>>]
    /\ before = [p \in Procs |-> remote]
    /\ ncalls = [p \in Procs |-> 0]

\* any mirror and any remote repository list
InitDb ==
    /\ org \in SeqsUpTo(NewRepos, MaxRepos)
    /\ db \in SUBSET {r \in NewRepos : r.fields = 1}
    /\ db_before = db
    /\ pages = 0
    /\ github_repos = <<>>
    /\ repo_map = << >>
    /\ dbpc = "idle"
    /\ dbtrace = <<>>
    /\ ReconcilerOff

NextDb ==
    \/ RefreshFetchPage
    \/ RefreshFetchOk
    \/ RefreshFetchErr
    \/ RefreshUpsert
    \/ RefreshDelete

SpecDb == InitDb /\ [][NextDb]_vars

(***************************************************************************)
(* Properties of the reconciler.                                           *)
(***************************************************************************)
\* the content the caller of p wants
Desired(p) == args[p].new_content

\* get_file of call p was answered, with a file or with an error
GetOk(p) == Len(trace[p]) > 0 /\ trace[p][1].ok

GetFailed(p) == Len(trace[p]) > 0 /\ ~trace[p][1].ok

\* the bytes of the file get_file answered with
ReadBytes(p) == trace[p][1].sha[1]

\* get_file of call p failed with a rate limit, with the size fault, or with
\* another error
RateLimited(p) == GetFailed(p) /\ trace[p][1].msg = "RateLimit"

TooLarge(p) ==
    /\ GetFailed(p)
    /\ trace[p][1].msg = "Fault"
    /\ Contains(trace[p][1].bytes, TOO_LARGE)

Missed(p) == GetFailed(p) /\ ~RateLimited(p) /\ ~TooLarge(p)

\* the directory of call p was listed
Listed(p) == \E i \in 1..Len(trace[p]) :
                trace[p][i].ev = "list_directory" /\ trace[p][i].ok

\* the path with one leading '/' removed, when it has one
StripOne(path) == IF path # <<>> /\ Head(path) = "/" THEN Tail(path) ELSE path

\* the listed items whose path is the path of the caller without one
\* leading '/'
EntriesOf(p) ==
    {i \in 1..Len(listing[p]) : listing[p][i].path = StripOne(args[p].file_path)}

\* the remote file has the wanted content up to trimming, or differs from it
\* only in the dates of a PDF
RemoteMatches(p) ==
    /\ remote.exists
    /\ \/ Trim(remote.bytes) = Trim(Desired(p))
       \/ SpuriousDiff(Trim(remote.bytes), Trim(Desired(p)))

\* every write call of p was accepted by the gateway
WritesAccepted(p) ==
    \A i \in 1..Len(trace[p]) :
        trace[p][i].ev \in {"update_file", "create_file"} => trace[p][i].ok

\* the size fallback of p found no item with the path of the file
NoMatchingItem(p) == Listed(p) /\ item[p] = NoItem

\* w is one write call of kind ev with the trimmed wanted content and the
\* path and branch of the caller
OneWrite(p, w, ev) ==
    /\ Len(w) = 1
    /\ w[1].ev = ev
    /\ w[1].bytes = Trim(Desired(p))
    /\ w[1].path = args[p].file_path
    /\ w[1].branch = args[p].branch

\* C1 as stated: after every call that completes, the trimmed remote bytes
\* equal the trimmed wanted bytes unless the difference is spurious
C1_Original == \A p \in Procs : pc[p] = "done" => RemoteMatches(p)

\* C1 amended: after every call that completes with its write call, if it
\* made one, accepted by the gateway, and that is not a size fallback which
\* found no directory item for the path, the trimmed remote bytes equal the
\* trimmed wanted bytes unless the difference is spurious
C1_RemoteMatchesAfterAcceptedCall ==
    \A p \in Procs :
        (pc[p] = "done" /\ WritesAccepted(p) /\ ~NoMatchingItem(p))
            => RemoteMatches(p)

\* a call has replaced a remote content that differed from the wanted one
C1_Witness ==
    \E p \in Procs :
        /\ pc[p] = "done"
        /\ Writes(trace[p]) # <<>>
        /\ WritesAccepted(p)
        /\ before[p].exists
        /\ Trim(before[p].bytes) # Trim(Desired(p))
        /\ remote # before[p]
        /\ RemoteMatches(p)

\* C2 as stated: when get_file fails with a rate limit, the call sleeps for
\* reset + 5 seconds and returns having made no write call
C2_RateLimitNoWrite ==
    \A p \in Procs :
        (pc[p] = "done" /\ RateLimited(p))
            => /\ Writes(trace[p]) = <<>>
               /\ \E i \in 1..Len(trace[p]) :
                    /\ trace[p][i].ev = "sleep"
                    /\ trace[p][i].secs = trace[p][1].secs + 5

\* C3 as stated: create_file is called only after get_file failed with an
\* error that is neither a rate limit nor the size fault, and never after
\* get_file succeeded or the size fallback ran
C3_CreateOnlyOnMiss ==
    \A p \in Procs :
        CallsOf(trace[p], "create_file") # <<>>
            => Missed(p) /\ ~Listed(p) /\ ~GetOk(p)

\* C4: when get_file answers with bytes whose trim equals the trim of the
\* wanted bytes, the call returns with no write call and the remote file is
\* as it was
C4_NoWriteWhenEqual ==
    \A p \in Procs :
        (GetOk(p) /\ Trim(ReadBytes(p)) = Trim(Desired(p)))
            => /\ pc[p] = "done"
               /\ Writes(trace[p]) = <<>>
               /\ remote = before[p]

\* a call has found a remote content that is the wanted one up to trimming
\* only, and one that is the wanted one byte for byte
C4_Witness ==
    \E p \in Procs :
        /\ pc[p] = "done"
        /\ GetOk(p)
        /\ ReadBytes(p) # Desired(p)
        /\ Trim(ReadBytes(p)) = Trim(Desired(p))
        /\ Writes(trace[p]) = <<>>

\* C5: when get_file answers with bytes that differ from the wanted ones
\* after trimming, and not spuriously, the call makes one write call: an
\* update_file with the trimmed wanted bytes, the hash get_file answered
\* with, and the path and branch of the caller
C5_OneUpdateWhenDifferent ==
    \A p \in Procs :
        ( /\ pc[p] = "done"
          /\ GetOk(p)
          /\ Trim(ReadBytes(p)) # Trim(Desired(p))
          /\ ~SpuriousDiff(Trim(ReadBytes(p)), Trim(Desired(p))) )
            => /\ OneWrite(p, Writes(trace[p]), "update_file")
               /\ Writes(trace[p])[1].sha = trace[p][1].sha

\* a call has updated a file whose content differed, with a wanted content
\* that trimming changes
C5_Witness ==
    \E p \in Procs :
        /\ pc[p] = "done"
        /\ GetOk(p)
        /\ Trim(ReadBytes(p)) # Trim(Desired(p))
        /\ Trim(Desired(p)) # Desired(p)
        /\ Len(Writes(trace[p])) = 1
        /\ Writes(trace[p])[1].ev = "update_file"
        /\ Writes(trace[p])[1].ok

\* C6: when get_file fails with an error that is neither a rate limit nor
\* the size fault, the call makes one write call: a create_file with the
\* trimmed wanted bytes and the path and branch of the caller
C6_OneCreateOnMiss ==
    \A p \in Procs :
        (pc[p] = "done" /\ Missed(p))
            => OneWrite(p, Writes(trace[p]), "create_file")

\* a call has created the file after a structured fault with another
\* message than the size fault
C6_Witness ==
    \E p \in Procs :
        /\ pc[p] = "done"
        /\ Missed(p)
        /\ trace[p][1].msg = "Fault"
        /\ Len(Writes(trace[p])) = 1
        /\ Writes(trace[p])[1].ev = "create_file"
        /\ Writes(trace[p])[1].ok

\* C7: after the size fault, when the listing has an item with the path of
\* the caller without one leading '/' whose blob trims to the trimmed wanted
\* bytes, the call makes no write call
C7_FallbackNoWriteWhenEqual ==
    \A p \in Procs :
        ( /\ TooLarge(p)
          /\ Listed(p)
          /\ \E i \in EntriesOf(p) :
                Trim(listing[p][i].sha[1]) = Trim(Desired(p)) )
            => Writes(trace[p]) = <<>>

\* a call has returned from the size fallback on a blob that is the wanted
\* content up to trimming only
C7_Witness ==
    \E p \in Procs :
        /\ pc[p] = "done"
        /\ TooLarge(p)
        /\ \E i \in EntriesOf(p) :
            /\ Trim(listing[p][i].sha[1]) = Trim(Desired(p))
            /\ listing[p][i].sha[1] # Trim(Desired(p))
        /\ \E i \in 1..Len(trace[p]) : trace[p][i].ev = "fetch_blob"
        /\ Writes(trace[p]) = <<>>

\* C8: after the size fault, when the listing has an item with the path of
\* the caller without one leading '/' whose blob was fetched and decoded and
\* does not trim to the trimmed wanted bytes, the call makes one write call:
\* an update_file with the trimmed wanted bytes and the hash of that item
C8_FallbackOneUpdateWhenDifferent ==
    \A p \in Procs :
        \A i \in EntriesOf(p) :
            ( /\ pc[p] = "done"
              /\ TooLarge(p)
              /\ Listed(p)
              /\ Trim(listing[p][i].sha[1]) # Trim(Desired(p)) )
                => /\ OneWrite(p, Writes(trace[p]), "update_file")
                   /\ Writes(trace[p])[1].sha = listing[p][i].sha

\* a call has updated the file from the size fallback
C8_Witness ==
    \E p \in Procs :
        /\ pc[p] = "done"
        /\ TooLarge(p)
        /\ \E i \in EntriesOf(p) :
                Trim(listing[p][i].sha[1]) # Trim(Desired(p))
        /\ Len(Writes(trace[p])) = 1
        /\ Writes(trace[p])[1].ok
        /\ remote.bytes = Trim(Desired(p))

\* C9 as stated: whatever the gateway answers, the call returns to its
\* caller; it never panics
C9_NeverPanics == \A p \in Procs : pc[p] # "panicked"

(***************************************************************************)
(* Properties of refresh_db_github_repos.                                  *)
(***************************************************************************)
\* the upsert and the delete calls made on the database
Upserts == SelectSeq(dbtrace, LAMBDA c : c.op = "upsert")

Deletes == SelectSeq(dbtrace, LAMBDA c : c.op = "delete")

\* C10: when refresh returns, upsert was called for each remote repository
\* with its descriptor, delete was called once for each name of the mirror
\* that is not in the remote list and for no other name, and the names of
\* the mirror are the names of the remote list
C10_MirrorFollowsRemote ==
    dbpc = "done" =>
        /\ [i \in 1..Len(Upserts) |-> Upserts[i].repo[1]] = org
        /\ {Deletes[i].name : i \in 1..Len(Deletes)}
                = NamesOf(db_before) \ ListNames(org)
        /\ Len(Deletes) = Cardinality(NamesOf(db_before) \ ListNames(org))
        /\ NamesOf(db) = ListNames(org)
        /\ \A r \in db : \E i \in 1..Len(org) : org[i] = r

\* refresh has returned after it kept a row, added a row and deleted a row
C10_Witness ==
    /\ dbpc = "done"
    /\ Deletes # <<>>
    /\ NamesOf(db_before) \cap ListNames(org) # {}
    /\ ListNames(org) \ NamesOf(db_before) # {}
    /\ NamesOf(db) = ListNames(org)

\* C11: when the fetch of the remote list fails, on any page, refresh has
\* made no upsert and no delete and the mirror is as it was
C11_NoPartialReconciliation ==
    dbpc = "panicked" => dbtrace = <<>> /\ db = db_before

\* the fetch failed on a later page, with a mirror that the remote list
\* would have changed
C11_Witness ==
    /\ dbpc = "panicked"
    /\ pages >= 1
    /\ db_before # {}
    /\ NamesOf(db_before) # ListNames(org)

\* the bytes Trim removes: horizontal tab and space
TrimmedBytes == {9, 32}

\* t is b without its longest leading run and its longest trailing run of
\* tabs and spaces
Trimmed(b, t) ==
    \E i, j \in 0..Len(b) :
        /\ i + Len(t) + j = Len(b)
        /\ t = SubSeq(b, i + 1, Len(b) - j)
        /\ \A k \in 1..i : b[k] \in TrimmedBytes
        /\ \A k \in (Len(b) - j + 1)..Len(b) : b[k] \in TrimmedBytes
        /\ t # <<>> => t[1] \notin TrimmedBytes /\ t[Len(t)] \notin TrimmedBytes

\* C13: Trim removes the longest leading and trailing runs of tab and space
\* and nothing else, so the result starts and ends with another byte, an
\* all-white-space buffer becomes empty, and trimming again changes nothing
C13_TrimRemovesTabsAndSpacesOnly ==
    \A p \in Procs : pc[p] \notin {"idle", "off"} =>
        /\ Trimmed(Desired(p), content[p])
        /\ (\A k \in 1..Len(Desired(p)) : Desired(p)[k] \in TrimmedBytes)
               => content[p] = <<>>
        /\ Trim(content[p]) = content[p]

\* a buffer was trimmed to a carriage return and a form feed at its ends
C13_Witness ==
    \E p \in Procs :
        /\ pc[p] \notin {"idle", "off"}
        /\ Desired(p) = <<9, 13, 104, 12, 32>>
        /\ content[p] = <<13, 104, 12>>
\* the old lines and the new lines that "@@ -5,8 +5,8 @@" covers
HunkLines == 5..12

\* the two buffers differ in a line outside the lines of the hunk
DiffersOutsideHunk(old, new) ==
    \/ Len(Lines(old)) # Len(Lines(new))
    \/ \E i \in 1..Len(Lines(old)) :
          i \notin HunkLines /\ Lines(old)[i] # Lines(new)[i]

\* C12: when the remote content and the wanted content differ in a line
\* outside the hunk "@@ -5,8 +5,8 @@", the difference is not taken for a
\* change of dates: the reconciler goes on to update the file
C12_FarChangeIsNotSpurious ==
    \A p \in Procs :
        (GetOk(p) /\ DiffersOutsideHunk(Trim(ReadBytes(p)), content[p]))
            => (pc[p] = "update" \/ Writes(trace[p]) # <<>>)
\* C14: after every failure of get_file that is neither a rate limit nor the
\* size fault, a structured fault with another message included, the line
\* "Getting the file at {path} failed" is printed, before create_file
C14_FailureIsLogged ==
    \A p \in Procs : Missed(p) =>
        /\ Len(trace[p]) >= 2
        /\ trace[p][2] = PrintEvent("get_failed", args[p].file_path, 0)
\* entry is path without its leading '/' characters, all of them
SameFile(path, entry) ==
    \E k \in 0..Len(path) :
        /\ \A j \in 1..k : path[j] = "/"
        /\ k < Len(path) => path[k + 1] # "/"
        /\ entry = SubSeq(path, k + 1, Len(path))

\* the listed items that name the file of the caller
TargetsOf(p) ==
    {i \in 1..Len(listing[p]) : SameFile(args[p].file_path, listing[p][i].path)}

\* the blob fetches of call p
BlobFetches(p) == CallsOf(trace[p], "fetch_blob")

\* C15 as stated: in the size fallback an item is taken for the file exactly
\* when its path is the path of the caller with one leading '/' removed
C15_Original ==
    \A p \in Procs : Listed(p) =>
        /\ item[p] # NoItem <=> EntriesOf(p) # {}
        /\ item[p] # NoItem => item[p].path = StripOne(args[p].file_path)

\* C15: in the size fallback an item is taken for the file exactly when its
\* path is the path of the caller with every leading '/' removed; the first
\* such item is the only one whose blob is fetched and whose hash is written
\* with, and with no such item there is no blob fetch and no write
C15_TargetIsPathWithoutLeadingSlashes ==
    \A p \in Procs : Listed(p) =>
        /\ item[p] # NoItem <=> TargetsOf(p) # {}
        /\ item[p] # NoItem =>
              /\ item[p] = listing[p][CHOOSE i \in TargetsOf(p) :
                                            \A j \in TargetsOf(p) : i <= j]
              /\ \A i \in 1..Len(trace[p]) :
                    trace[p][i].ev \in {"fetch_blob", "update_file"}
                        => trace[p][i].sha = item[p].sha
        /\ Len(BlobFetches(p)) <= 1
        /\ item[p] = NoItem =>
              /\ BlobFetches(p) = <<>>
              /\ Writes(trace[p]) = <<>>
              /\ pc[p] = "done"

\* the fallback skipped another file of the directory and fetched the blob
\* of the item "a" for the path "//a"
C15_Witness ==
    \E p \in Procs :
        /\ Listed(p)
        /\ args[p].file_path = <<"/", "/", "a">>
        /\ Len(listing[p]) = 2
        /\ listing[p][1].path = <<"b">>
        /\ item[p] = listing[p][2]
        /\ item[p].path = <<"a">>
        /\ Len(BlobFetches(p)) = 1
\* C16: a call that found the remote content different from the wanted
\* content by the dates of a PDF only, and a call whose size fallback listed
\* no item that names the file, have returned with no write call and have
\* left the remote file as it was
C16_NoOpStatesWriteNothing ==
    \A p \in Procs :
        ( \/ /\ GetOk(p)
              /\ Trim(ReadBytes(p)) # content[p]
              /\ SpuriousDiff(Trim(ReadBytes(p)), content[p])
          \/ /\ TooLarge(p)
              /\ Listed(p)
              /\ TargetsOf(p) = {} )
            => /\ pc[p] = "done"
               /\ Writes(trace[p]) = <<>>
               /\ remote = before[p]

\* a call has returned on a change of dates only
C16_Witness ==
    \E p \in Procs :
        /\ pc[p] = "done"
        /\ GetOk(p)
        /\ Trim(ReadBytes(p)) # content[p]
        /\ SpuriousDiff(Trim(ReadBytes(p)), content[p])
        /\ Writes(trace[p]) = <<>>

\* a call has returned from a size fallback that listed another file only
C16_WitnessNoMatch ==
    \E p \in Procs :
        /\ pc[p] = "done"
        /\ TooLarge(p)
        /\ Listed(p)
        /\ listing[p] # <<>>
        /\ TargetsOf(p) = {}
        /\ Writes(trace[p]) = <<>>
\* C19: one call makes at most one write call, whatever branch it takes and
\* however many items of the listing name the file
C19_AtMostOneWrite ==
    \A p \in Procs : Len(Writes(trace[p])) <= 1

\* a call has returned from a size fallback whose listing named the file
\* twice, after one update
C19_Witness ==
    \E p \in Procs :
        /\ pc[p] = "done"
        /\ TooLarge(p)
        /\ Cardinality(TargetsOf(p)) = 2
        /\ Len(Writes(trace[p])) = 1
        /\ Writes(trace[p])[1].ok
\* C17: with one caller that goes on calling with the same arguments, once
\* the gateway has stopped failing transiently the remote file comes to hold
\* the wanted content up to trimming, or a content that differs from it by
\* the dates of a PDF only, and stays so
C17_EventuallyMatches ==
    <>(~flaky) => <>[](RemoteMatches(1))

\* the gateway has settled on a remote file that did not match, and the
\* calls made since have brought the remote file to the wanted content
C17_Witness ==
    /\ ~flaky
    /\ pc[1] = "done"
    /\ ~(before[1].exists /\ Trim(before[1].bytes) = Trim(Desired(1)))
    /\ Writes(trace[1]) # <<>>
    /\ RemoteMatches(1)

\* C20: when a call on a gateway that does not fail transiently, by the
\* only writer, is followed by a second call with the same arguments, the
\* second call makes no write call, whatever branch the first call took
C20_SecondCallWritesNothing ==
    \A p \in Procs :
        (~flaky /\ ncalls[p] >= 2) => Writes(trace[p]) = <<>>

\* the second call since the gateway settled has returned from the size
\* fallback with no write
C20_Witness ==
    \E p \in Procs :
        /\ ~flaky
        /\ ncalls[p] = 2
        /\ pc[p] = "done"
        /\ TooLarge(p)
        /\ BlobFetches(p) # <<>>
        /\ Writes(trace[p]) = <<>>
\* the events of call p that read the hash of the file: the answer of
\* get_file and the listing of the size fallback
HashReads(p) ==
    SelectSeq(trace[p],
              LAMBDA e : e.ev \in {"get_file", "list_directory"} /\ e.ok)

\* the revision of the remote file whose hash call p read
ReadRev(p) == HashReads(p)[Len(HashReads(p))].rev

\* the update calls of call p that the gateway applied, and those it
\* rejected
AppliedUpdates(p) ==
    SelectSeq(trace[p], LAMBDA e : e.ev = "update_file" /\ e.ok)

RejectedUpdates(p) ==
    SelectSeq(trace[p], LAMBDA e : e.ev = "update_file" /\ ~e.ok)

\* the update calls call p has sent
SentUpdates(p) == CallsOf(trace[p], "update_file")

\* C18: with two callers of different wanted contents on one existing file
\* and a gateway that rejects a stale prior hash: every applied update
\* replaces the revision its call read; a call whose update is rejected
\* drops the failure, prints "Updated" and returns; of two calls that read
\* the same revision at most one has its update applied and the remote file
\* then holds the trimmed wanted content of that call; and when the gateway
\* rejects nothing but stale hashes, of two such calls that both sent their
\* update one is applied and the other is rejected
C18_NoLostUpdate ==
    \A p \in Procs :
        /\ \A i \in 1..Len(AppliedUpdates(p)) :
              /\ HashReads(p) # <<>>
              /\ AppliedUpdates(p)[i].rev = ReadRev(p)
        /\ RejectedUpdates(p) # <<>> =>
              /\ pc[p] = "done"
              /\ trace[p][Len(trace[p])]
                    = PrintEvent("updated", args[p].file_path, 0)
        /\ \A q \in Procs \ {p} :
              ( /\ HashReads(p) # <<>> /\ HashReads(q) # <<>>
                /\ ReadRev(p) = ReadRev(q) )
                  => /\ AppliedUpdates(p) # <<>> =>
                          /\ AppliedUpdates(q) = <<>>
                          /\ remote.bytes = Trim(Desired(p))
                          /\ remote.rev = ReadRev(p) + 1
                     /\ (~flaky /\ SentUpdates(p) # <<>> /\ SentUpdates(q) # <<>>) =>
                          \/ AppliedUpdates(p) # <<>> /\ RejectedUpdates(q) # <<>>
                          \/ AppliedUpdates(q) # <<>> /\ RejectedUpdates(p) # <<>>

\* on a gateway that rejects nothing but stale hashes, two calls read the
\* same revision; the update of one was applied, the update of the other
\* was rejected, and that call printed "Updated" and returned
C18_Witness ==
    \E p, q \in Procs :
        /\ p # q
        /\ ~flaky
        /\ pc[p] = "done" /\ pc[q] = "done"
        /\ HashReads(p) # <<>> /\ HashReads(q) # <<>>
        /\ ReadRev(p) = ReadRev(q)
        /\ AppliedUpdates(p) # <<>>
        /\ RejectedUpdates(q) # <<>>
        /\ trace[q][Len(trace[q])] = PrintEvent("updated", args[q].file_path, 0)
        /\ remote.bytes = Trim(Desired(p))
        /\ Trim(Desired(p)) # Trim(Desired(q))
====
